---- MODULE Spec2Model ----
(***************************************************************************)
(* Model of dts_parser/dts_flow.py: a linear script that fetches the       *)
(* paginated Daily Treasury Statement records of the current year,         *)
(* aggregates them into a daily series, derives today / month-to-date /    *)
(* year-to-date figures and two ratios, computes the day-over-day percent  *)
(* change, prints a seven-line summary and shows a chart.                  *)
(*                                                                         *)
(* Representation.                                                         *)
(*  - An ISO date string "YYYY-MM-DD" is the tuple <<y, m, d>> of its      *)
(*    fields; a pandas Timestamp is the integer y*10000 + m*100 + d,       *)
(*    which orders as Timestamps do.                                       *)
(*  - A JSON page (list of records) is run-length encoded: a sequence of   *)
(*    runs [rec, n], n >= 1 consecutive copies of the record rec.  The     *)
(*    length of the list is the sum of the n.  This keeps the page size    *)
(*    of the source (500) without enumerating 500 independent records.     *)
(*  - Python's None is the empty tuple, a present value x is <<x>>.        *)
(*  - A float is a fraction <<n, d>> with d >= 0: d > 0 is the finite      *)
(*    value n/d, <<1,0>> is +inf, <<-1,0>> is -inf and <<0,0>> is NaN      *)
(*    (the results numpy gives for a division by zero).  Amounts and       *)
(*    their sums are integer valued and kept as integers.                  *)
(*  - A pandas Series is [index |-> sequence of Timestamps,                *)
(*    values |-> sequence of the same length].                             *)
(***************************************************************************)
EXTENDS Integers, Sequences, FiniteSets, TLC

VARIABLES
    today,          \* pd.Timestamp.today().normalize()
    pc,             \* position of the script
    page,           \* the loop's page counter
    log,            \* history: one entry per requests.get call, in call order
    data,           \* accumulated raw records
    exc,            \* the exception that ended the run, "" if none
    daily,          \* the daily series
    today_value,    \* None or the value of daily at today
    mtd,            \* month-to-date sum
    ytd,            \* year-to-date sum
    pct_today_ytd,  \* None or a float
    pct_mtd_ytd,    \* None or a float
    pct_change,     \* the percent-change series
    out,            \* lines printed on standard output, in order
    shown           \* plt.show() was called

vars == <<today, pc, page, log, data, exc, daily, today_value, mtd, ytd,
          pct_today_ytd, pct_mtd_ytd, pct_change, out, shown>>

-----------------------------------------------------------------------------
(* Bounds of the model *)

\* the server holds a finite dataset: at most MaxPages pages are served
MaxPages == 3

\* a small dataset (one short page) has at most MaxRecs records
MaxRecs == 2

-----------------------------------------------------------------------------
(* Values *)

None == <<>>

Some(x) == <<x>>

PageSize == 500

\* the current dates the model runs on
TodaySet == {<<2026, 1, 1>>, <<2026, 2, 2>>}

\* record_date strings the server may return
DateStrs == {<<2025, 12, 31>>, <<2026, 1, 1>>, <<2026, 1, 2>>,
             <<2026, 2, 1>>, <<2026, 2, 2>>, <<2026, 2, 3>>}

\* transaction_today_amt strings the server may return
AmtStrs == {"100", "150", "-250", "", "n/a"}

RawRecords == [record_date : DateStrs, transaction_today_amt : AmtStrs]

Run(r, n) == [rec |-> r, n |-> n]

\* records the paged (large) dataset is made of
PagedRecords ==
    { [record_date |-> <<2026, 1, 2>>, transaction_today_amt |-> "100"],
      [record_date |-> <<2026, 2, 2>>, transaction_today_amt |-> "-250"],
      [record_date |-> <<2026, 2, 1>>, transaction_today_amt |-> ""] }

\* a page of exactly PageSize records
FullChunks == { <<Run(r, PageSize)>> : r \in PagedRecords }

\* a page of fewer than PageSize records
ShortChunks ==
    {<<>>} \cup { <<Run(r, n)>> : r \in PagedRecords, n \in {237, PageSize - 1} }

\* HTTP status codes of a response
Statuses == {200, 404, 503}

\* the sequences over S of length at most k
SeqsUpTo(S, k) == UNION { [1..n -> S] : n \in 0..k }

\* the single page of a small dataset: any list of at most MaxRecs records
SmallChunks == SeqsUpTo({ Run(r, 1) : r \in RawRecords }, MaxRecs)

EmptySeries == [index |-> <<>>, values |-> <<>>]

-----------------------------------------------------------------------------
(* Dates *)

Timestamp(y, m, d) == y * 10000 + m * 100 + d

year(ts) == ts \div 10000

month(ts) == (ts \div 100) % 100

to_datetime(s) == Timestamp(s[1], s[2], s[3])

strftime(ts) == <<ts \div 10000, (ts \div 100) % 100, ts % 100>>

-----------------------------------------------------------------------------
(* Fetcher *)

RECURSIVE len(_)
len(chunk) ==
    IF chunk = <<>> THEN 0 ELSE Head(chunk).n + len(Tail(chunk))

\* faulty variant: only server errors raise
raise_for_status_5xx(status) == status >= 500 /\ status < 600

raise_for_status(status) == status >= 400 /\ status < 600

extend(list, chunk) == list \o chunk

\* faulty variant: a full page is taken for the last one
last_page_le(chunk) == len(chunk) <= PageSize

last_page(chunk) == len(chunk) < PageSize

\* one iteration of the while loop: a request and the handling of its response
Request(status, chunk) ==
    /\ pc = "fetch"
    /\ log' = Append(log, [page |-> page, status |-> status, chunk |-> chunk])
    /\ IF raise_for_status(status)
       THEN /\ pc' = "failed"
            /\ exc' = "HTTPError"
            /\ UNCHANGED <<data, page>>
       ELSE /\ exc' = exc
            /\ IF chunk = <<>>
               THEN /\ pc' = "aggregate"
                    /\ UNCHANGED <<data, page>>
               ELSE /\ data' = extend(data, chunk)
                    /\ IF last_page(chunk)
                       THEN pc' = "aggregate" /\ page' = page
                       ELSE pc' = "fetch" /\ page' = page + 1
    /\ UNCHANGED <<today, daily, today_value, mtd, ytd, pct_today_ytd,
                   pct_mtd_ytd, pct_change, out, shown>>

\* the responses a server with a large, finite dataset gives to a request
PagedResponses ==
    { <<200, c>> : c \in ShortChunks }
      \cup { <<s, <<>>>> : s \in Statuses \ {200} }
      \cup (IF page < MaxPages THEN { <<200, c>> : c \in FullChunks } ELSE {})

FetchPaged ==
    /\ pc = "fetch"
    /\ page <= MaxPages
    /\ \E r \in PagedResponses : Request(r[1], r[2])

\* a server whose whole dataset fits in one page
FetchSmall ==
    /\ pc = "fetch"
    /\ page = 1
    /\ \E c \in SmallChunks : Request(200, c)

-----------------------------------------------------------------------------
(* Floats *)

NaN == <<0, 0>>

sign(a) == IF a > 0 THEN 1 ELSE IF a < 0 THEN -1 ELSE 0

\* a / b of two integer-valued floats; numpy gives +-inf or NaN when b = 0
fdiv(a, b) ==
    IF b > 0 THEN <<a, b>>
    ELSE IF b < 0 THEN <<-a, -b>>
    ELSE <<sign(a), 0>>

\* f - k for an integer k
fsub(f, k) == IF f[2] > 0 THEN <<f[1] - k * f[2], f[2]>> ELSE f

\* f * k for an integer k > 0
fmul(f, k) == IF f[2] > 0 THEN <<f[1] * k, f[2]>> ELSE f

\* a / b rounded to the nearest integer, b > 0
RoundDiv(a, b) == (2 * a + b) \div (2 * b)

-----------------------------------------------------------------------------
(* Aggregator *)

\* the strings that denote a number, with the number
NumericLiteral == ("100" :> 100) @@ ("150" :> 150) @@ ("-250" :> -250)

\* pd.to_numeric(s, errors='coerce'): None stands for NaN
to_numeric(s) ==
    IF s \in DOMAIN NumericLiteral THEN Some(NumericLiteral[s]) ELSE None

fillna(x, v) == IF x = None THEN v ELSE x[1]

\* the frame after lines 37-40: parsed dates and numeric amounts, row by row
DataFrame(list) ==
    [ i \in 1..Len(list) |->
        [ record_date |-> to_datetime(list[i].rec.record_date),
          transaction_today_amt |->
              fillna(to_numeric(list[i].rec.transaction_today_amt), 0),
          n |-> list[i].n ] ]

\* groupby('record_date')[...].sum(): rows folded into a total per key
RECURSIVE groupby_sum(_, _)
groupby_sum(df, acc) ==
    IF df = <<>> THEN acc
    ELSE LET r == Head(df)
             k == r.record_date
             add == r.transaction_today_amt * r.n
         IN  groupby_sum(Tail(df),
                 IF k \in DOMAIN acc
                 THEN [acc EXCEPT ![k] = @ + add]
                 ELSE acc @@ (k :> add))

RECURSIVE sorted(_)
sorted(S) ==
    IF S = {} THEN <<>>
    ELSE LET m == CHOOSE x \in S : \A y \in S : x <= y
         IN  <<m>> \o sorted(S \ {m})

\* Series.sort_index() of a keyed total
sort_index(g) ==
    LET idx == sorted(DOMAIN g)
    IN  [index |-> idx, values |-> [ i \in 1..Len(idx) |-> g[idx[i]] ]]

daily_of(list) == sort_index(groupby_sum(DataFrame(list), <<>>))

\* lines 37-43; an empty list gives a frame without columns, and
\* df['record_date'] raises KeyError
Aggregate ==
    /\ pc = "aggregate"
    /\ IF data = <<>>
       THEN /\ pc' = "failed"
            /\ exc' = "KeyError"
            /\ UNCHANGED daily
       ELSE /\ daily' = daily_of(data)
            /\ pc' = "lookup"
            /\ UNCHANGED exc
    /\ UNCHANGED <<today, page, log, data, today_value, mtd, ytd,
                   pct_today_ytd, pct_mtd_ytd, pct_change, out, shown>>

-----------------------------------------------------------------------------
(* Summarizer *)

in_index(ts, s) == \E i \in 1..Len(s.index) : s.index[i] = ts

loc(s, ts) == s.values[CHOOSE i \in 1..Len(s.index) : s.index[i] = ts]

fmt_date(t) == <<"date">> \o t

warning_line(today_str) ==
    [label |-> "Warning: No data found for today", text |-> fmt_date(today_str)]

\* faulty variant: a missing record reads as zero
today_value_of_zero(s, ts) == IF in_index(ts, s) THEN Some(loc(s, ts)) ELSE Some(0)

today_value_of(s, ts) == IF in_index(ts, s) THEN Some(loc(s, ts)) ELSE None

\* lines 46-51
Lookup ==
    /\ pc = "lookup"
    /\ today_value' = today_value_of(daily, today)
    /\ out' = IF in_index(today, daily) THEN out
              ELSE Append(out, warning_line(strftime(today)))
    /\ pc' = "sums"
    /\ UNCHANGED <<today, page, log, data, exc, daily, mtd, ytd,
                   pct_today_ytd, pct_mtd_ytd, pct_change, shown>>

\* faulty variant: the lower bound is excluded
RECURSIVE between_sum_open(_, _, _, _)
between_sum_open(s, lo, hi, i) ==
    IF i > Len(s.index) THEN 0
    ELSE (IF s.index[i] > lo /\ s.index[i] <= hi THEN s.values[i] ELSE 0)
         + between_sum_open(s, lo, hi, i + 1)

\* s[(s.index >= lo) & (s.index <= hi)].sum()
RECURSIVE between_sum(_, _, _, _)
between_sum(s, lo, hi, i) ==
    IF i > Len(s.index) THEN 0
    ELSE (IF s.index[i] >= lo /\ s.index[i] <= hi THEN s.values[i] ELSE 0)
         + between_sum(s, lo, hi, i + 1)

mtd_of(s, ts) == between_sum(s, Timestamp(year(ts), month(ts), 1), ts, 1)

ytd_of(s, ts) == between_sum(s, Timestamp(year(ts), 1, 1), ts, 1)

\* lines 53-59
Sums ==
    /\ pc = "sums"
    /\ mtd' = mtd_of(daily, today)
    /\ ytd' = ytd_of(daily, today)
    /\ pc' = "ratios"
    /\ UNCHANGED <<today, page, log, data, exc, daily, today_value,
                   pct_today_ytd, pct_mtd_ytd, pct_change, out, shown>>

\* faulty variant: only a zero denominator is guarded
pct_today_ytd_of_nonzero(tv, y) ==
    IF tv # None /\ y # 0 THEN Some(fmul(fdiv(tv[1], y), 100)) ELSE None

pct_today_ytd_of(tv, y) ==
    IF tv # None /\ y > 0 THEN Some(fmul(fdiv(tv[1], y), 100)) ELSE None

\* faulty variant: only a zero denominator is guarded
pct_mtd_ytd_of_nonzero(m, y) ==
    IF y # 0 THEN Some(fmul(fdiv(m, y), 100)) ELSE None

pct_mtd_ytd_of(m, y) ==
    IF y > 0 THEN Some(fmul(fdiv(m, y), 100)) ELSE None

\* lines 61-63
Ratios ==
    /\ pc = "ratios"
    /\ pct_today_ytd' = pct_today_ytd_of(today_value, ytd)
    /\ pct_mtd_ytd' = pct_mtd_ytd_of(mtd, ytd)
    /\ pc' = "pct_change"
    /\ UNCHANGED <<today, page, log, data, exc, daily, today_value, mtd, ytd,
                   pct_change, out, shown>>

-----------------------------------------------------------------------------
(* Percent change, report and plot *)

\* faulty variant: the change is taken relative to the current value
pct_change_of_cur(s) ==
    [ index |-> s.index,
      values |-> [ i \in 1..Len(s.values) |->
                     IF i = 1 THEN NaN
                     ELSE fmul(fsub(fdiv(s.values[i - 1], s.values[i]), 1), 100) ] ]

\* Series.pct_change() * 100: values / values.shift(1) - 1, first entry NaN
pct_change_of(s) ==
    [ index |-> s.index,
      values |-> [ i \in 1..Len(s.values) |->
                     IF i = 1 THEN NaN
                     ELSE fmul(fsub(fdiv(s.values[i], s.values[i - 1]), 1), 100) ] ]

\* line 66
PctChange ==
    /\ pc = "pct_change"
    /\ pct_change' = pct_change_of(daily)
    /\ pc' = "report"
    /\ UNCHANGED <<today, page, log, data, exc, daily, today_value, mtd, ytd,
                   pct_today_ytd, pct_mtd_ytd, out, shown>>

\* f"${v:,.0f}" of an integer-valued float
fmt_money(v) == <<"$", v>>

\* f"{p:.3f}%": the value in thousandths of a percent
fmt_pct(p) ==
    <<"%", 1000 * (p[1] \div p[2]) + RoundDiv(1000 * (p[1] % p[2]), p[2])>>

\* faulty variant: the as-of line is missing
report_lines_short(today_str, tv, m, y, p1, p2) ==
    << [label |-> "Operating Cash Deposits & Withdrawals (total, all categories):",
        text |-> <<>>],
       [label |-> "Today's value:",
        text |-> IF tv # None THEN fmt_money(tv[1]) ELSE <<"Data not available.">>],
       [label |-> "Month-to-date:", text |-> fmt_money(m)],
       [label |-> "Year-to-date:", text |-> fmt_money(y)],
       [label |-> "% Today / YTD:",
        text |-> IF p1 # None THEN fmt_pct(p1[1]) ELSE <<"N/A">>],
       [label |-> "% Month / YTD:",
        text |-> IF p2 # None THEN fmt_pct(p2[1]) ELSE <<"N/A">>] >>

report_lines(today_str, tv, m, y, p1, p2) ==
    << [label |-> "Operating Cash Deposits & Withdrawals (total, all categories):",
        text |-> <<>>],
       [label |-> "Data up to:", text |-> fmt_date(today_str)],
       [label |-> "Today's value:",
        text |-> IF tv # None THEN fmt_money(tv[1]) ELSE <<"Data not available.">>],
       [label |-> "Month-to-date:", text |-> fmt_money(m)],
       [label |-> "Year-to-date:", text |-> fmt_money(y)],
       [label |-> "% Today / YTD:",
        text |-> IF p1 # None THEN fmt_pct(p1[1]) ELSE <<"N/A">>],
       [label |-> "% Month / YTD:",
        text |-> IF p2 # None THEN fmt_pct(p2[1]) ELSE <<"N/A">>] >>

\* lines 68-75
Report ==
    /\ pc = "report"
    /\ out' = out \o report_lines(strftime(today), today_value, mtd, ytd,
                                  pct_today_ytd, pct_mtd_ytd)
    /\ pc' = "plot"
    /\ UNCHANGED <<today, page, log, data, exc, daily, today_value, mtd, ytd,
                   pct_today_ytd, pct_mtd_ytd, pct_change, shown>>

\* lines 77-85
Plot ==
    /\ pc = "plot"
    /\ shown' = TRUE
    /\ pc' = "done"
    /\ UNCHANGED <<today, page, log, data, exc, daily, today_value, mtd, ytd,
                   pct_today_ytd, pct_mtd_ytd, pct_change, out>>

-----------------------------------------------------------------------------
Init ==
    /\ today \in { to_datetime(t) : t \in TodaySet }
    /\ pc = "fetch"
    /\ page = 1
    /\ log = <<>>
    /\ data = <<>>
    /\ exc = ""
    /\ daily = EmptySeries
    /\ today_value = None
    /\ mtd = 0
    /\ ytd = 0
    /\ pct_today_ytd = None
    /\ pct_mtd_ytd = None
    /\ pct_change = EmptySeries
    /\ out = <<>>
    /\ shown = FALSE

Pipeline == Aggregate \/ Lookup \/ Sums \/ Ratios \/ PctChange \/ Report \/ Plot

\* the script against a server with a large dataset
Next == FetchPaged \/ Pipeline

Spec == Init /\ [][Next]_vars

\* the same; the script is sequential and every step it reaches is taken
FairSpec == Spec /\ WF_vars(Next)

\* the script against a server whose dataset fits in one page
NextSmall == FetchSmall \/ Pipeline

SmallSpec == Init /\ [][NextSmall]_vars

-----------------------------------------------------------------------------
(* Vocabulary of the properties *)

Aggregated == pc \in {"lookup", "sums", "ratios", "pct_change", "report", "plot", "done"}

LookedUp == pc \in {"sums", "ratios", "pct_change", "report", "plot", "done"}

Summed == pc \in {"ratios", "pct_change", "report", "plot", "done"}

RatiosDone == pc \in {"pct_change", "report", "plot", "done"}

PctChanged == pc \in {"report", "plot", "done"}

Reported == pc \in {"plot", "done"}

NonSuccess(status) == status < 200 \/ status > 299

RECURSIVE SetSum(_, _)
SetSum(f, S) ==
    IF S = {} THEN 0
    ELSE LET x == CHOOSE y \in S : TRUE IN f[x] + SetSum(f, S \ {x})

\* the amount a record contributes: its number, zero if it has none
AmountOf(r) ==
    IF r.transaction_today_amt \in {"100", "150", "-250"}
    THEN NumericLiteral[r.transaction_today_amt] ELSE 0

DateOf(r) == Timestamp(r.record_date[1], r.record_date[2], r.record_date[3])

DatesOf(list) == { DateOf(list[i].rec) : i \in 1..Len(list) }

\* the sum of the amounts of all records of the list dated ts
SumForDate(list, ts) ==
    SetSum([ i \in 1..Len(list) |-> AmountOf(list[i].rec) * list[i].n ],
           { i \in 1..Len(list) : DateOf(list[i].rec) = ts })

\* s is the daily series of the list
IsDailySeriesOf(s, list) ==
    /\ Len(s.index) = Cardinality(DatesOf(list))
    /\ Len(s.values) = Len(s.index)
    /\ { s.index[i] : i \in 1..Len(s.index) } = DatesOf(list)
    /\ \A i \in 1..Len(s.index) : \A j \in 1..Len(s.index) :
           i < j => s.index[i] < s.index[j]
    /\ \A i \in 1..Len(s.index) : s.values[i] = SumForDate(list, s.index[i])

\* the sum of the values of s dated within [lo, hi]
RangeSum(s, lo, hi) ==
    SetSum(s.values, { i \in 1..Len(s.index) : lo <= s.index[i] /\ s.index[i] <= hi })

Lines(label) == { i \in 1..Len(out) : out[i].label = label }

Text(label) == out[CHOOSE i \in Lines(label) : TRUE].text

WarningLabel == "Warning: No data found for today"

SummaryLabels ==
    << "Operating Cash Deposits & Withdrawals (total, all categories):",
       "Data up to:", "Today's value:", "Month-to-date:", "Year-to-date:",
       "% Today / YTD:", "% Month / YTD:" >>

\* the printed lines without the warning lines
Summary == SelectSeq(out, LAMBDA l : l.label # WarningLabel)

\* two floats are the same value (the same non-finite value, if not finite)
SameFloat(f, g) ==
    IF f[2] = 0 \/ g[2] = 0 THEN f = g ELSE f[1] * g[2] = g[1] * f[2]

RECURSIVE Flatten(_)
Flatten(chunks) ==
    IF chunks = <<>> THEN <<>> ELSE Head(chunks) \o Flatten(Tail(chunks))

-----------------------------------------------------------------------------
(* Properties *)

\* C1: for any list of fetched raw records the run does not fail in the
\* aggregator, and the daily series has exactly one entry per distinct
\* record_date, in ascending date order, each value the sum of the amounts of
\* the records of that date, an unparseable amount counting as zero.
C1_DailySeries ==
    (pc \notin {"fetch", "aggregate"} /\ exc # "HTTPError")
        => /\ exc = ""
           /\ Aggregated
           /\ IsDailySeriesOf(daily, data)

\* C2: the pagination loop terminates; pages 1, 2, 3, ... are requested in
\* order, each once; no request follows the first page shorter than the page
\* size (an empty page included), and the loop ends only on such a page; the
\* accumulated data is the concatenation of the returned pages in page order.
C2_Inv ==
    /\ \A i \in 1..Len(log) : log[i].page = i
    /\ \A i \in 1..Len(log) :
           i < Len(log) => /\ ~NonSuccess(log[i].status)
                           /\ len(log[i].chunk) >= 500
    /\ pc = "fetch" => page = Len(log) + 1
    /\ pc \notin {"fetch", "failed"} =>
           /\ Len(log) >= 1
           /\ len(log[Len(log)].chunk) < 500
    /\ (Len(log) >= 1 /\ ~NonSuccess(log[Len(log)].status)
          /\ len(log[Len(log)].chunk) < 500) => pc # "fetch"
    /\ data = Flatten([ i \in 1..Len(log) |-> log[i].chunk ])

C2_Pagination == [](C2_Inv) /\ <>(pc # "fetch")

\* pages of sizes 500, 500, 237: three requests, all 1237 records combined
C2_Witness ==
    /\ pc = "aggregate"
    /\ Len(log) = 3
    /\ len(log[1].chunk) = 500
    /\ len(log[2].chunk) = 500
    /\ len(log[3].chunk) = 237
    /\ len(data) = 1237

\* C3: when the first page has zero records, exactly one request is issued
\* and the run continues to the aggregator, whose daily series is empty.
C3_EmptyFirstPage ==
    (Len(log) >= 1 /\ ~NonSuccess(log[1].status) /\ log[1].chunk = <<>>)
        => /\ Len(log) = 1
           /\ pc # "failed"
           /\ exc = ""
           /\ daily = EmptySeries

\* C4: the year-to-date sum is the sum of the daily-series values dated within
\* [Jan 1 of the current year, today] and the month-to-date sum the sum of
\* those dated within [1st of the current month, today], bounds included.
C4_Sums ==
    Summed =>
        /\ ytd = RangeSum(daily, (today \div 10000) * 10000 + 101, today)
        /\ mtd = RangeSum(daily, (today \div 100) * 100 + 1, today)

\* an entry on the 1st of the month counted, an entry after today not counted
C4_Witness ==
    /\ Summed
    /\ today = 20260202
    /\ daily.index = <<20260201, 20260203>>
    /\ daily.values[1] # 0
    /\ daily.values[2] # 0
    /\ mtd = daily.values[1]
    /\ ytd = daily.values[1]

\* C5: % Today / YTD is defined iff today's value exists and the year-to-date
\* sum is > 0; % Month / YTD is defined iff the year-to-date sum is > 0; with a
\* year-to-date sum <= 0 both are reported as N/A.
C5_Guard ==
    /\ RatiosDone =>
           /\ pct_today_ytd # None <=> (today_value # None /\ ytd > 0)
           /\ pct_mtd_ytd # None <=> ytd > 0
    /\ (Reported /\ ytd <= 0) =>
           /\ Text("% Today / YTD:") = <<"N/A">>
           /\ Text("% Month / YTD:") = <<"N/A">>

\* a zero year-to-date sum with today's value present: both N/A
C5_Witness ==
    /\ Reported
    /\ ytd = 0
    /\ today_value # None
    /\ daily.index # <<>>
    /\ pct_today_ytd = None
    /\ pct_mtd_ytd = None

\* C6: if today's date is absent from the daily series the run does not fail:
\* one warning is printed, today's value is reported as "Data not available.",
\* % Today / YTD is N/A, and month-to-date, year-to-date and % Month / YTD
\* are computed and reported.
C6_TodayAbsent ==
    (LookedUp /\ \A i \in 1..Len(daily.index) : daily.index[i] # today) =>
        /\ exc = ""
        /\ today_value = None
        /\ Cardinality(Lines(WarningLabel)) = 1
        /\ Text(WarningLabel) = <<"date", today \div 10000, (today \div 100) % 100, today % 100>>
        /\ RatiosDone => pct_today_ytd = None
        /\ Reported =>
               /\ Text("Today's value:") = <<"Data not available.">>
               /\ Text("% Today / YTD:") = <<"N/A">>
               /\ Text("Month-to-date:") = <<"$", RangeSum(daily, (today \div 100) * 100 + 1, today)>>
               /\ Text("Year-to-date:") = <<"$", RangeSum(daily, (today \div 10000) * 10000 + 101, today)>>
               /\ (ytd > 0) <=> (Text("% Month / YTD:")[1] = "%")
               /\ (ytd <= 0) <=> (Text("% Month / YTD:") = <<"N/A">>)

\* today absent, earlier entries of the month present: the sums are positive
C6_Witness ==
    /\ pc = "done"
    /\ today = 20260202
    /\ daily.index = <<20260102, 20260201>>
    /\ today_value = None
    /\ mtd > 0
    /\ ytd > mtd
    /\ pct_mtd_ytd # None

\* C7: the percent-change series has the index of the daily series, its first
\* value is undefined (NaN), and every later value is
\* (total - preceding total) / preceding total * 100, in float arithmetic
\* (+-inf or NaN where the preceding total is zero).
C7_PctChange ==
    PctChanged =>
        /\ pct_change.index = daily.index
        /\ Len(pct_change.values) = Len(daily.values)
        /\ Len(daily.values) >= 1 => pct_change.values[1] = NaN
        /\ \A i \in 2..Len(daily.values) :
               LET cur == daily.values[i]
                   prev == daily.values[i - 1]
               IN  /\ prev > 0 => SameFloat(pct_change.values[i], <<(cur - prev) * 100, prev>>)
                   /\ prev < 0 => SameFloat(pct_change.values[i], <<(prev - cur) * 100, -prev>>)
                   /\ (prev = 0 /\ cur > 0) => pct_change.values[i] = <<1, 0>>
                   /\ (prev = 0 /\ cur < 0) => pct_change.values[i] = <<-1, 0>>
                   /\ (prev = 0 /\ cur = 0) => pct_change.values[i] = NaN

\* the daily series {Jan 1: 100, Jan 2: 150} gives 50.0 for Jan 2
C7_Witness ==
    /\ PctChanged
    /\ daily = [index |-> <<20260101, 20260102>>, values |-> <<100, 150>>]
    /\ pct_change.index = <<20260101, 20260102>>
    /\ SameFloat(pct_change.values[2], <<50, 1>>)

\* C8: a non-success HTTP status ends the run: the request is the last one
\* (no retry, no later page), nothing is aggregated, nothing is printed and
\* no chart is shown.
C8_HttpFailure ==
    \A i \in 1..Len(log) :
        NonSuccess(log[i].status) =>
            /\ i = Len(log)
            /\ \A j \in 1..Len(log) : log[j].page = log[i].page => j = i
            /\ pc = "failed"
            /\ exc = "HTTPError"
            /\ daily = EmptySeries
            /\ out = <<>>
            /\ ~shown

\* the second page fails after a first page of records
C8_Witness ==
    /\ Len(log) = 2
    /\ NonSuccess(log[2].status)
    /\ data # <<>>
    /\ pc = "failed"

\* C9: a run that completes fetching and aggregation prints exactly the seven
\* summary lines in their fixed order, plus exactly one warning line iff
\* today's record is absent; nothing is printed before the last page request,
\* and the chart is shown only after the seven lines.
C9_Inv ==
    /\ pc \in {"fetch", "aggregate"} => out = <<>>
    /\ out # <<>> => len(log[Len(log)].chunk) < 500
    /\ Reported =>
           /\ Len(Summary) = 7
           /\ \A i \in 1..7 : Summary[i].label = SummaryLabels[i]
           /\ Cardinality(Lines(WarningLabel)) =
                  (IF \E i \in 1..Len(daily.index) : daily.index[i] = today THEN 0 ELSE 1)
           /\ Len(out) = 7 + Cardinality(Lines(WarningLabel))
    /\ shown => (Reported /\ Len(Summary) = 7)
    /\ ~Reported => (~shown /\ Len(Summary) = 0)

C9_Output == [](C9_Inv) /\ (Aggregated ~> Reported)

\* a finished run with the warning line and the seven summary lines
C9_Witness ==
    /\ pc = "done"
    /\ shown
    /\ Len(out) = 8
    /\ out[1].label = WarningLabel
    /\ Len(log) = 2

\* C10 as stated: with a negative year-to-date sum the percentages are
\* computed as signed percentages (mtd / ytd * 100, and today / ytd * 100
\* when today's value exists).
C10_Original ==
    (RatiosDone /\ ytd < 0) =>
        /\ pct_mtd_ytd # None
        /\ today_value # None => pct_today_ytd # None

\* C10 amended: with a negative year-to-date sum both percentages are
\* unavailable and reported as N/A; they are computed (mtd / ytd * 100, and
\* today / ytd * 100 when today's value exists) only when the sum is > 0.
C10_NegativeYtd ==
    /\ (RatiosDone /\ ytd < 0) => (pct_mtd_ytd = None /\ pct_today_ytd = None)
    /\ (Reported /\ ytd < 0) =>
           /\ Text("% Today / YTD:") = <<"N/A">>
           /\ Text("% Month / YTD:") = <<"N/A">>
    /\ (RatiosDone /\ ytd > 0) =>
           /\ pct_mtd_ytd # None /\ SameFloat(pct_mtd_ytd[1], <<mtd * 100, ytd>>)
           /\ today_value # None =>
                  (pct_today_ytd # None
                      /\ SameFloat(pct_today_ytd[1], <<today_value[1] * 100, ytd>>))

\* a negative year-to-date sum, today's value present and nonzero
C10_Witness ==
    /\ Reported
    /\ ytd < 0
    /\ mtd < 0
    /\ today_value # None
    /\ today_value[1] # 0
    /\ pct_mtd_ytd = None
====
